---------------------------- MODULE Spec2Model ----------------------------
(***************************************************************************)
(* Loop AI hospital-network assistant (server.js).                         *)
(*                                                                         *)
(* JavaScript strings are TLC strings (Len, SubSeq and \o act on them), so *)
(* the text functions below work on the characters the code works on.      *)
(* Values that come back from the language model may have any JSON type    *)
(* and are tagged: Str(s), Num(n), Undef.                                  *)
(***************************************************************************)
EXTENDS Integers, Sequences, FiniteSets, TLC

(***************************************************************************)
(* String primitives.                                                      *)
(***************************************************************************)
LowerLetters == "abcdefghijklmnopqrstuvwxyz"
UpperLetters == "ABCDEFGHIJKLMNOPQRSTUVWXYZ"
AlphabetSize == Len(LowerLetters)

CharAt(s, i) == SubSeq(s, i, i)

UpperSet == {CharAt(UpperLetters, k) : k \in 1..AlphabetSize}
LowerSet == {CharAt(LowerLetters, k) : k \in 1..AlphabetSize}

IsUpper(c) == c \in UpperSet
IsLower(c) == c \in LowerSet
IsLetter(c) == IsUpper(c) \/ IsLower(c)
\* \s of a JavaScript regular expression, over the characters of the model
IsSpace(c) == c \in {" ", "\t"}

\* the letter of the other case, as a function of the letter
RECURSIVE CaseMap(_, _, _)
CaseMap(from, to, k) ==
    IF k = 0 THEN << >>
    ELSE (CharAt(from, k) :> CharAt(to, k)) @@ CaseMap(from, to, k - 1)
ToLowerMap == CaseMap(UpperLetters, LowerLetters, AlphabetSize)
ToUpperMap == CaseMap(LowerLetters, UpperLetters, AlphabetSize)

LowerChar(c) == IF IsUpper(c) THEN ToLowerMap[c] ELSE c
UpperChar(c) == IF IsLower(c) THEN ToUpperMap[c] ELSE c

RECURSIVE toLowerCase(_)
toLowerCase(s) ==
    IF Len(s) = 0 THEN "" ELSE LowerChar(CharAt(s, 1)) \o toLowerCase(Tail(s))

RECURSIVE toUpperCase(_)
toUpperCase(s) ==
    IF Len(s) = 0 THEN "" ELSE UpperChar(CharAt(s, 1)) \o toUpperCase(Tail(s))

\* String.prototype.includes
includes(s, k) ==
    \E i \in 0..(Len(s) - Len(k)) : SubSeq(s, i + 1, i + Len(k)) = k

\* String.prototype.trim
trim(s) ==
    LET keep == {i \in 1..Len(s) : ~IsSpace(CharAt(s, i))}
    IN  IF keep = {} THEN ""
        ELSE LET lo == CHOOSE i \in keep : \A j \in keep : i <= j
                 hi == CHOOSE i \in keep : \A j \in keep : j <= i
             IN  SubSeq(s, lo, hi)

\* s.replace(/[?.!]/g, '')
RECURSIVE StripPunct(_)
StripPunct(s) ==
    IF Len(s) = 0 THEN ""
    ELSE (IF CharAt(s, 1) \in {"?", ".", "!"} THEN "" ELSE CharAt(s, 1))
         \o StripPunct(Tail(s))

\* c.charAt(0).toUpperCase() + c.slice(1)
Capitalize(c) == UpperChar(CharAt(c, 1)) \o Tail(c)

(***************************************************************************)
(* A backtracking matcher for the regular expressions of naiveParse.  A    *)
(* pattern is a sequence of nodes; every pattern has the flag i.  A match  *)
(* attempt returns the ways to match in the order the backtracking engine  *)
(* tries them, so the first one is the engine's answer.                    *)
(***************************************************************************)
Lit(str)      == [k |-> "lit", s |-> str]                \* literal text
Rep(cls, lz)  == [k |-> "rep", c |-> cls, lazy |-> lz, min |-> 1]  \* X+ / X+?
Star(cls)     == [k |-> "rep", c |-> cls, lazy |-> FALSE, min |-> 0] \* X*
OneOf(chars)  == [k |-> "set", s |-> chars]              \* [..] once
Opt(re)       == [k |-> "opt", r |-> re]                 \* (?:..)?
Alt(res)      == [k |-> "alt", rs |-> res]               \* (?:a|b|c)
Grp(re)       == [k |-> "grp", r |-> re]                 \* (..) group 1
EndAnchor     == [k |-> "end"]                           \* $

InClass(cls, c) ==
    CASE cls = "space"      -> IsSpace(c)
      [] cls = "alphaspace" -> IsLetter(c) \/ IsSpace(c)   \* [a-z\s] with i
      [] cls = "any"        -> Len(c) = 1                  \* .
      [] OTHER              -> FALSE

Least(S) == CHOOSE a \in S : \A b \in S : a <= b

\* the longest run of class characters starting at position i
RunLength(cls, s, i) ==
    LET stops == {j \in i..Len(s) : ~InClass(cls, CharAt(s, j))}
    IN  IF stops = {} THEN Len(s) - i + 1 ELSE Least(stops) - i

RECURSIVE FlatSeq(_)
FlatSeq(ss) == IF Len(ss) = 0 THEN <<>> ELSE Head(ss) \o FlatSeq(Tail(ss))

RECURSIVE MatchSeq(_, _, _, _)
RECURSIVE MatchNode(_, _, _, _)

\* the rest of a pattern matched after each way (heads) to match its head
MatchRest(rest, s, heads) ==
    FlatSeq([n \in 1..Len(heads) |-> MatchSeq(rest, s, heads[n].pos, heads[n].cap)])

\* matches of the node sequence re on s from position i; cap is group 1
MatchSeq(re, s, i, cap) ==
    IF Len(re) = 0 THEN << [pos |-> i, cap |-> cap] >>
    ELSE MatchRest(Tail(re), s, MatchNode(Head(re), s, i, cap))

\* X+ takes the longest run first, X+? the shortest
RepEnds(nd, i, cap, run) ==
    [n \in 1..(IF run < nd.min THEN 0 ELSE run - nd.min + 1) |->
       [pos |-> i + (IF nd.lazy THEN nd.min + n - 1 ELSE run - n + 1), cap |-> cap]]

\* group 1 spans from i to where its pattern ended
GroupEnds(i, inner) ==
    [n \in 1..Len(inner) |-> [pos |-> inner[n].pos, cap |-> <<i, inner[n].pos>>]]

MatchNode(nd, s, i, cap) ==
    CASE nd.k = "lit" ->
           IF /\ i + Len(nd.s) - 1 <= Len(s)
              /\ toLowerCase(SubSeq(s, i, i + Len(nd.s) - 1)) = nd.s
           THEN << [pos |-> i + Len(nd.s), cap |-> cap] >>
           ELSE << >>
      [] nd.k = "set" ->
           IF i <= Len(s) /\ includes(nd.s, CharAt(s, i))
           THEN << [pos |-> i + 1, cap |-> cap] >>
           ELSE << >>
      [] nd.k = "end" ->
           IF i = Len(s) + 1 THEN << [pos |-> i, cap |-> cap] >> ELSE << >>
      [] nd.k = "rep" -> RepEnds(nd, i, cap, RunLength(nd.c, s, i))
      [] nd.k = "opt" ->
           MatchSeq(nd.r, s, i, cap) \o << [pos |-> i, cap |-> cap] >>
      [] nd.k = "alt" ->
           FlatSeq([n \in 1..Len(nd.rs) |-> MatchSeq(nd.rs[n], s, i, cap)])
      [] nd.k = "grp" -> GroupEnds(i, MatchSeq(nd.r, s, i, cap))

NoMatch == [found |-> FALSE, index |-> 0, end |-> 0, g1 |-> ""]

\* the match object of the engine's first way m to match from position i
MatchObject(s, i, m) ==
    [found |-> TRUE, index |-> i, end |-> m.pos,
     g1 |-> IF Len(m.cap) = 0 THEN "" ELSE SubSeq(s, m.cap[1], m.cap[2] - 1)]

MatchAt(s, re, i) == MatchObject(s, i, Head(MatchSeq(re, s, i, << >>)))

MatchFrom(s, re, starts) ==
    IF starts = {} THEN NoMatch ELSE MatchAt(s, re, Least(starts))

\* s.match(re) for a pattern without the flag g: the leftmost start that
\* matches, and there the engine's first way to match
match(s, re) ==
    MatchFrom(s, re, {i \in 1..(Len(s) + 1) : Len(MatchSeq(re, s, i, << >>)) > 0})

(***************************************************************************)
(* JSON values as the language model may return them.                      *)
(***************************************************************************)
Str(s) == [t |-> "string", s |-> s, n |-> 0]
Num(n) == [t |-> "number", s |-> "", n |-> n]
Undef  == [t |-> "undefined", s |-> "", n |-> 0]

IsStr(v) == v.t = "string"
\* v === 'text'
StrictEq(v, text) == v.t = "string" /\ v.s = text

\* JavaScript truthiness of a value
Truthy(v) ==
    CASE v.t = "string" -> v.s # ""
      [] v.t = "number" -> v.n # 0
      [] OTHER          -> FALSE

(***************************************************************************)
(* isOutOfScope, server.js 78-103.                                         *)
(***************************************************************************)
outOfScopeKeywords ==
    << "appointment", "book", "schedule", "insurance coverage", "claim", "policy",
       "stock", "price", "weather", "joke", "recipe", "sports", "news",
       "movie", "music", "restaurant", "hotel", "flight", "travel" >>

hospitalKeywords ==
    << "hospital", "network", "clinic", "medical", "doctor", "nursing" >>

\* keywords.some(kw => lower.includes(kw))
SomeIncluded(keywords, lower) ==
    \E n \in 1..Len(keywords) : includes(lower, keywords[n])

\* isOutOfScope with the keywords sought in the text as typed
isOutOfScopeAsTyped(userText) ==
    SomeIncluded(outOfScopeKeywords, userText)
    /\ ~SomeIncluded(hospitalKeywords, userText)

isOutOfScope(userText) ==
    LET lower == toLowerCase(userText)
        hasHospitalKeyword   == SomeIncluded(hospitalKeywords, lower)
        hasOutOfScopeKeyword == SomeIncluded(outOfScopeKeywords, lower)
    IN  IF hasOutOfScopeKeyword /\ ~hasHospitalKeyword THEN TRUE
        ELSE FALSE      \* the short-query branch returns false as well

(***************************************************************************)
(* naiveParse, server.js 105-192.                                          *)
(***************************************************************************)
Sp == Rep("space", FALSE)                                  \* \s+

\* /in\s+([a-z\s]+?)(?:\s+is|\s+in\s+my\s+network|$)/i   and the two after it
cityPatterns ==
    << << Lit("in"), Sp, Grp(<< Rep("alphaspace", TRUE) >>),
          Alt(<< << Sp, Lit("is") >>,
                 << Sp, Lit("in"), Sp, Lit("my"), Sp, Lit("network") >>,
                 << EndAnchor >> >>) >>,
       << Lit("in"), Sp, Grp(<< Rep("alphaspace", TRUE) >>),
          Alt(<< << Sp, Lit("or"), Sp, Lit("not") >>,
                 << EndAnchor >> >>) >>,
       << Lit("in"), Sp, Grp(<< Rep("alphaspace", TRUE) >>),
          Alt(<< << Sp, OneOf("?.!") >>,
                 << EndAnchor >> >>) >> >>

knownCities ==
    << "bangalore", "delhi", "mumbai", "chennai", "kolkata", "hyderabad",
       "pune", "noida", "gurgaon", "ghaziabad", "faridabad" >>

AnyGrp == Grp(<< Rep("any", TRUE) >>)                      \* (.+?)

\* the five hospital-name patterns, in the order of the source
namePatterns ==
    << << Opt(<< Lit("can"), Sp, Lit("you"), Sp >>), Lit("confirm"), Sp,
          AnyGrp, Sp, Lit("in"), Sp >>,
       << Lit("confirm"), Sp, Lit("if"), Sp, AnyGrp, Sp, Lit("in"), Sp >>,
       << Lit("confirm"), Sp, Lit("whether"), Sp, AnyGrp, Sp, Lit("in"), Sp >>,
       << Lit("if"), Sp, AnyGrp, Sp, Lit("in"), Sp >>,
       << AnyGrp, Sp, Lit("in"), Sp, Rep("alphaspace", TRUE), Sp,
          Opt(<< Lit("is"), Sp >>), Lit("in"), Sp, Lit("my"), Sp, Lit("network") >> >>

\* /\s+(is|are|was|were|in|the|a|an)\s*$/i
trailingWord ==
    << Sp,
       Alt(<< << Lit("is") >>, << Lit("are") >>, << Lit("was") >>, << Lit("were") >>,
              << Lit("in") >>, << Lit("the") >>, << Lit("a") >>, << Lit("an") >> >>),
       Star("space"), EndAnchor >>

\* s.replace(re, '') for a pattern without the flag g; m is s.match(re)
Removed(s, m) ==
    IF m.found THEN SubSeq(s, 1, m.index - 1) \o SubSeq(s, m.end, Len(s)) ELSE s
replaceFirst(s, re) == Removed(s, match(s, re))

\* the loop of lines 140-146: the first pattern with a non-empty group wins
RECURSIVE extractCity(_, _)
CityStep(userText, n, m) ==
    IF m.found /\ m.g1 # "" THEN StripPunct(trim(m.g1))
    ELSE extractCity(userText, n + 1)
extractCity(userText, n) ==
    IF n > Len(cityPatterns) THEN ""
    ELSE CityStep(userText, n, match(userText, cityPatterns[n]))

\* the loop of lines 151-156
RECURSIVE fallbackCity(_, _)
fallbackCity(lower, n) ==
    IF n > Len(knownCities) THEN ""
    ELSE IF includes(lower, knownCities[n]) THEN Capitalize(knownCities[n])
    ELSE fallbackCity(lower, n + 1)

\* the loop of lines 172-182: hospitalName keeps the value of the last pattern
\* that matched, and the loop stops at the first one longer than two characters
RECURSIVE extractName(_, _, _)
\* lines 178-180, nm being the name cleaned at lines 175-177
NameKept(userText, n, nm) ==
    IF nm # "" /\ Len(nm) > 2 THEN nm ELSE extractName(userText, n + 1, nm)
NameStep(userText, n, hospitalName, m) ==
    IF m.found /\ m.g1 # ""
    THEN NameKept(userText, n, trim(replaceFirst(trim(m.g1), trailingWord)))
    ELSE extractName(userText, n + 1, hospitalName)
extractName(userText, n, hospitalName) ==
    IF n > Len(namePatterns) THEN hospitalName
    ELSE NameStep(userText, n, hospitalName, match(userText, namePatterns[n]))

defaultMaxResults == 3

\* lines 123-131
classify(lower) ==
    IF includes(lower, "around") \/ includes(lower, "near") \/ includes(lower, "nearby")
    THEN "FIND_NEARBY"
    ELSE IF \/ includes(lower, "confirm")
            \/ includes(lower, "in my network")
            \/ (includes(lower, "is") /\ includes(lower, "network"))
    THEN "CONFIRM_IN_NETWORK"
    ELSE "IN_SCOPE"

\* lines 134-157
cityOf(lower, city0) == IF city0 = "" THEN fallbackCity(lower, 1) ELSE city0

\* lines 159-191
parsedQuery(userText, intent, city) ==
    [intent |-> Str(intent), city |-> Str(city),
     hospitalName |-> Str(IF intent = "CONFIRM_IN_NETWORK"
                          THEN extractName(userText, 1, "") ELSE ""),
     maxResults |-> Num(defaultMaxResults), outOfScope |-> FALSE]

naiveParseLower(userText, lower) ==
    IF isOutOfScope(userText)
    THEN [intent |-> Str("OUT_OF_SCOPE"), city |-> Str(""),
          hospitalName |-> Str(""), maxResults |-> Num(defaultMaxResults),
          outOfScope |-> TRUE]
    ELSE parsedQuery(userText, classify(lower), cityOf(lower, extractCity(userText, 1)))

naiveParse(userText) == naiveParseLower(userText, toLowerCase(userText))

\* what a caller may say or type
UtteranceList ==
    << "", "  ",
       "confirm if Apollo Hospital in Chennai is in my network",
       "confirm if City Clinic in Pune is in my network",
       "Apollo Hospital in Chennai is in my network",
       "confirm Apollo Hospital in 560001",
       "is it in my network",
       "find hospitals around Bangalore",
       "hospitals in Mumbai",
       "near me",
       "book an appointment for tomorrow",
       "BOOK a cab to Mumbai",
       "what is the weather in Delhi",
       "hello there" >>
Utterances == {UtteranceList[k] : k \in 1..Len(UtteranceList)}

\* naiveParse of every utterance of the model, computed once
RECURSIVE parseEach(_)
parseEach(k) ==
    IF k = 0 THEN << >>
    ELSE Append(parseEach(k - 1), naiveParse(UtteranceList[k]))
ParseTable == parseEach(Len(UtteranceList))

\* naiveParse(userText), read from the table
parse(userText) ==
    ParseTable[CHOOSE k \in 1..Len(UtteranceList) : UtteranceList[k] = userText]

(***************************************************************************)
(* The Directory: loadHospitals, server.js 27-50.  A CSV row is a function *)
(* from the header names the file has to the cell texts.                   *)
(***************************************************************************)
\* row[h], with undefined (no such column) and '' both falsy
Cell(row, h) == IF h \in DOMAIN row THEN row[h] ELSE ""
\* a || b on cell texts
OrElse(a, b) == IF a # "" THEN a ELSE b

normalizeRow(row) ==
    [name    |-> trim(OrElse(Cell(row, "HOSPITAL NAME"),
                             OrElse(Cell(row, "Hospital Name"), ""))),
     address |-> trim(OrElse(Cell(row, "Address"), "")),
     city    |-> trim(OrElse(Cell(row, "CITY"), OrElse(Cell(row, "City"), "")))]

loadHospitals(rows) == [n \in 1..Len(rows) |-> normalizeRow(rows[n])]

(***************************************************************************)
(* Search helpers, server.js 53-71.  A call either returns a value or      *)
(* throws (a TypeError, when a method is called on a value without it).    *)
(***************************************************************************)
Return(v) == [thrown |-> FALSE, v |-> v]
Throw(v)  == [thrown |-> TRUE, v |-> v]      \* v: a value of the shape of a return

Digits == "0123456789"
IsDigit(c) == \E k \in 1..Len(Digits) : CharAt(Digits, k) = c
DigitValue(c) == (CHOOSE k \in 1..Len(Digits) : CharAt(Digits, k) = c) - 1

RECURSIVE DecimalValue(_, _)
DecimalValue(s, acc) ==
    IF Len(s) = 0 THEN acc
    ELSE DecimalValue(Tail(s), 10 * acc + DigitValue(CharAt(s, 1)))

\* ToIntegerOrInfinity of a slice bound: a number is itself, a decimal
\* numeral its value, any other text NaN and so 0
ToInteger(v) ==
    CASE v.t = "number" -> v.n
      [] v.t = "string" ->
           IF Len(v.s) > 0 /\ \A i \in 1..Len(v.s) : IsDigit(CharAt(v.s, i))
           THEN DecimalValue(v.s, 0) ELSE 0
      [] OTHER -> 0

\* slice0 without its end
sliceAll(arr, end) == arr

\* Array.prototype.slice(0, end)
slice0(arr, end) ==
    LET e == ToInteger(end)
        k == IF e < 0 THEN (IF Len(arr) + e < 0 THEN 0 ELSE Len(arr) + e)
             ELSE (IF e > Len(arr) THEN Len(arr) ELSE e)
    IN  SubSeq(arr, 1, k)

searchHospitalsAroundCity(dir, city, limit0) ==
    LET limit == IF limit0.t = "undefined" THEN Num(defaultMaxResults) ELSE limit0
    IN  IF ~Truthy(city) THEN Return(<<>>)
        ELSE IF ~IsStr(city) THEN Throw(<<>>)          \* city.toUpperCase
        ELSE LET cityUpper == toUpperCase(city.s)
                 Hit(h) == includes(toUpperCase(h.city), cityUpper)
             IN  Return(slice0(SelectSeq(dir, Hit), limit))

\* findHospitalInCityByName comparing the texts as given
findExactCase(dir, name, city) ==
    IF ~Truthy(name) \/ ~Truthy(city) THEN Return(<< >>)
    ELSE IF ~IsStr(name) \/ ~IsStr(city) THEN Throw(<< >>)
    ELSE LET Hit(h) == includes(h.name, name.s) /\ includes(h.city, city.s)
         IN  Return(SelectSeq(dir, Hit))

findHospitalInCityByName(dir, name, city) ==
    IF ~Truthy(name) \/ ~Truthy(city) THEN Return(<<>>)
    ELSE IF ~IsStr(name) \/ ~IsStr(city) THEN Throw(<<>>) \* .toUpperCase
    ELSE LET nameUpper == toUpperCase(name.s)
             cityUpper == toUpperCase(city.s)
             Hit(h) == /\ includes(toUpperCase(h.name), nameUpper)
                       /\ includes(toUpperCase(h.city), cityUpper)
         IN  Return(SelectSeq(dir, Hit))

(***************************************************************************)
(* extractQueryInfo, server.js 194-256.  llm is what the completion call   *)
(* did: "none" (no call is made without a credential), "network_error"     *)
(* (create rejects), "invalid_json" (JSON.parse throws), or "object" with  *)
(* the parsed object, whose fields may be missing or of any type.          *)
(***************************************************************************)
NoParsed == [intent |-> Undef, city |-> Undef, hospitalName |-> Undef,
             maxResults |-> Undef]
NoCall       == [kind |-> "none", parsed |-> NoParsed]
NetworkError == [kind |-> "network_error", parsed |-> NoParsed]
InvalidJson  == [kind |-> "invalid_json", parsed |-> NoParsed]
Parsed(i, c, h, m) ==
    [kind |-> "object",
     parsed |-> [intent |-> i, city |-> c, hospitalName |-> h, maxResults |-> m]]

extractQueryInfo(userText, key, llm) ==
    IF ~key THEN parse(userText)
    ELSE IF llm.kind # "object" THEN parse(userText)          \* the catch
    ELSE [intent       |-> llm.parsed.intent,
          city         |-> llm.parsed.city,
          hospitalName |-> llm.parsed.hospitalName,
          maxResults   |-> IF Truthy(llm.parsed.maxResults)
                           THEN llm.parsed.maxResults
                           ELSE Num(defaultMaxResults),
          outOfScope   |-> StrictEq(llm.parsed.intent, "OUT_OF_SCOPE")]

(***************************************************************************)
(* handleQuery, server.js 259-352.                                         *)
(***************************************************************************)
GreetingReply ==
    "I am Loop AI, your hospital network assistant. How can I help you today?"
ApologyReply ==
    "I'm sorry, I can't help with that. I am forwarding this to a human agent."
AskCityReply ==
    "I can definitely help you find hospitals, but I need to know the city. "
    \o "In which city are you looking for hospitals?"
AskNameReply ==
    "I found several similar names. Can you please repeat the full hospital name and city?"
AskWhichCityReply ==
    "I have found hospitals with this name in multiple locations. "
    \o "In which city are you looking for this hospital?"
IntroText == "Hi, I am Loop AI, your hospital network assistant. "
CapabilityReply ==
    "I can help you find hospitals in a city or confirm if a specific hospital "
    \o "in a city is in your network."
SorryReply == "Sorry, something went wrong while processing your request."

Result(reply, endConversation) ==
    [reply |-> reply, endConversation |-> endConversation]

\* joinLines numbering from idx instead of idx + 1
RECURSIVE joinLinesFromZero(_, _)
joinLinesFromZero(results, idx) ==
    IF idx > Len(results) THEN ""
    ELSE (IF idx > 1 THEN " " ELSE "")
         \o ToString(idx - 1) \o ". " \o results[idx].name \o ", "
         \o results[idx].address \o ", " \o results[idx].city
         \o joinLinesFromZero(results, idx + 1)

\* lines.join(' ') of `${idx + 1}. ${h.name}, ${h.address}, ${h.city}`
RECURSIVE joinLines(_, _)
joinLines(results, idx) ==
    IF idx > Len(results) THEN ""
    ELSE (IF idx > 1 THEN " " ELSE "")
         \o ToString(idx) \o ". " \o results[idx].name \o ", "
         \o results[idx].address \o ", " \o results[idx].city
         \o joinLines(results, idx + 1)

\* lines 272-278: route an IN_SCOPE parse to a concrete intent
upgradeIntent(info) ==
    IF StrictEq(info.intent, "IN_SCOPE")
    THEN IF Truthy(info.city) /\ ~Truthy(info.hospitalName)
         THEN [info EXCEPT !.intent = Str("FIND_NEARBY")]
         ELSE IF Truthy(info.city) /\ Truthy(info.hospitalName)
         THEN [info EXCEPT !.intent = Str("CONFIRM_IN_NETWORK")]
         ELSE info
    ELSE info

\* lines 296-308, found being what the search returned
nearbyReply(info, found) ==
    IF found.thrown THEN Throw(Result("", FALSE))
    ELSE IF Len(found.v) = 0
    THEN Return(Result("I could not find any hospitals in our network for "
                       \o info.city.s \o ".", FALSE))
    ELSE Return(Result("Here are " \o ToString(Len(found.v))
                       \o " hospitals around " \o info.city.s \o ": "
                       \o joinLines(found.v, 1), FALSE))

\* lines 288-309
findNearby(dir, info) ==
    IF ~Truthy(info.city) THEN Return(Result(AskCityReply, FALSE))
    ELSE nearbyReply(info,
            searchHospitalsAroundCity(dir, info.city,
                IF Truthy(info.maxResults) THEN info.maxResults
                ELSE Num(defaultMaxResults)))

\* lines 325-334, matches being what the lookup returned
confirmReply(info, matches) ==
    IF matches.thrown THEN Throw(Result("", FALSE))
    ELSE IF Len(matches.v) > 0
    THEN Return(Result("Yes, " \o info.hospitalName.s \o " in " \o info.city.s
                       \o " is in your Loop network.", FALSE))
    ELSE Return(Result("I could not find " \o info.hospitalName.s \o " in "
                       \o info.city.s \o " in your Loop network.", FALSE))

\* lines 311-335
confirmInNetwork(dir, info) ==
    IF ~Truthy(info.hospitalName) THEN Return(Result(AskNameReply, FALSE))
    ELSE IF ~Truthy(info.city) THEN Return(Result(AskWhichCityReply, FALSE))
    ELSE confirmReply(info,
            findHospitalInCityByName(dir, info.hospitalName, info.city))

\* lines 337-344
fallbackReply(isFirstMessage) ==
    Result((IF isFirstMessage THEN IntroText ELSE "") \o CapabilityReply, FALSE)

\* route greeting a first-time caller in the ask-for-city reply as well
routeGreeting(dir, info, isFirstMessage) ==
    IF info.outOfScope \/ StrictEq(info.intent, "OUT_OF_SCOPE")
    THEN Return(Result(ApologyReply, TRUE))
    ELSE IF StrictEq(info.intent, "FIND_NEARBY")
    THEN IF ~Truthy(info.city)
         THEN Return(Result((IF isFirstMessage THEN IntroText ELSE "")
                            \o AskCityReply, FALSE))
         ELSE findNearby(dir, info)
    ELSE IF StrictEq(info.intent, "CONFIRM_IN_NETWORK")
    THEN confirmInNetwork(dir, info)
    ELSE Return(fallbackReply(isFirstMessage))

\* lines 280-344, info being the QueryInfo after the upgrade
route(dir, info, isFirstMessage) ==
    IF info.outOfScope \/ StrictEq(info.intent, "OUT_OF_SCOPE")
    THEN Return(Result(ApologyReply, TRUE))
    ELSE IF StrictEq(info.intent, "FIND_NEARBY") THEN findNearby(dir, info)
    ELSE IF StrictEq(info.intent, "CONFIRM_IN_NETWORK")
    THEN confirmInNetwork(dir, info)
    ELSE Return(fallbackReply(isFirstMessage))

\* the body of the try block after the interpreter returned, lines 270-344
respondBody(dir, info0, isFirstMessage) ==
    route(dir, upgradeIntent(info0), isFirstMessage)

\* settle without the catch: a throw of the body rejects the call
settleUncaught(body) ==
    IF body.thrown
    THEN [status |-> "rejected", result |-> Result("", FALSE), caught |-> FALSE]
    ELSE [status |-> "resolved", result |-> body.v, caught |-> FALSE]

\* lines 345-351: the catch turns a throw of the body into the generic reply.
\* caught records that the catch branch ran (it logs the error).
settle(body) ==
    IF body.thrown
    THEN [status |-> "resolved", result |-> Result(SorryReply, FALSE), caught |-> TRUE]
    ELSE [status |-> "resolved", result |-> body.v, caught |-> FALSE]

\* the try block with its catch, lines 267-351, after the interpreter returned
respond(dir, info, isFirstMessage) == settle(respondBody(dir, info, isFirstMessage))

NoInfo == [intent |-> Undef, city |-> Undef, hospitalName |-> Undef,
           maxResults |-> Undef, outOfScope |-> FALSE]

\* the QueryInfo of the turn with what the call settled to
withInfo(info, r) ==
    [info |-> info, status |-> r.status, result |-> r.result, caught |-> r.caught]

answer(dir, info, isFirstMessage) == withInfo(info, respond(dir, info, isFirstMessage))

\* handleQuery: the interpreter's QueryInfo (info) and what the call settles to
handleQuery(dir, key, userText, isFirstMessage, llm) ==
    IF userText = "" \/ trim(userText) = ""
    THEN [info |-> NoInfo, status |-> "resolved",
          result |-> Result(GreetingReply, FALSE), caught |-> FALSE]
    ELSE answer(dir, extractQueryInfo(userText, key, llm), isFirstMessage)

(***************************************************************************)
(* The spoken-response document of POST /twilio/voice/response, server.js  *)
(* 396-449: the verbs in the order they were added.                        *)
(***************************************************************************)
ResponseAction == "/twilio/voice/response"
Say(text)      == [verb |-> "Say", text |-> text, action |-> "", input |-> ""]
\* a Gather of speech; text is the prompt said inside it ("" for none)
Gather(prompt) == [verb |-> "Gather", text |-> prompt, action |-> ResponseAction,
                   input |-> "speech"]
Hangup         == [verb |-> "Hangup", text |-> "", action |-> "", input |-> ""]

\* lines 408-420: the speech was empty
noInputDocument ==
    << Say("I did not understand. Please ask your question again."),
       Gather(""), Hangup >>

\* replyDocument that always asks for more speech
replyDocumentAlwaysGather(result) ==
    << Say(result.reply),
       Gather("You can ask another question, or say goodbye to end the call."),
       Say("Thank you for calling Loop AI. Goodbye."),
       Hangup >>

\* lines 425-445
replyDocument(result) ==
    << Say(result.reply) >> \o
    (IF result.endConversation
     THEN << Hangup >>
     ELSE << Gather("You can ask another question, or say goodbye to end the call."),
             Say("Thank you for calling Loop AI. Goodbye."),
             Hangup >>)

(***************************************************************************)
(* Inputs.                                                                 *)
(***************************************************************************)
\* the CSV files the server may have been started on
CsvFiles ==
    { << ("HOSPITAL NAME" :> "Apollo Hospital") @@ ("Address" :> "21 Greams Lane")
            @@ ("CITY" :> "Chennai"),
         ("HOSPITAL NAME" :> " Manipal Hospital ") @@ ("Address" :> "98 HAL Road")
            @@ ("CITY" :> "Bangalore"),
         ("Hospital Name" :> "Fortis Hospital") @@ ("Address" :> "14 Cunningham Road")
            @@ ("City" :> "Bangalore "),
         ("HOSPITAL NAME" :> "") @@ ("Address" :> "5 MG Road") @@ ("CITY" :> "Pune"),
         ("HOSPITAL NAME" :> "Sakra World Hospital") @@ ("Address" :> "52 Outer Ring Road")
            @@ ("CITY" :> "BANGALORE"),
         ("HOSPITAL NAME" :> "Aster Clinic") @@ ("Address" :> "1 Hebbal Main Road")
            @@ ("CITY" :> "Bangalore Rural"),
         ("HOSPITAL NAME" :> "City Clinic") @@ ("Address" :> "9 Park Street") >>,
      << ("HOSPITAL NAME" :> "Manipal Hospital") @@ ("Address" :> "98 HAL Road")
            @@ ("CITY" :> "Bangalore"),
         ("HOSPITAL NAME" :> "Fortis Hospital") @@ ("Address" :> "14 Cunningham Road")
            @@ ("CITY" :> "Bangalore") >> }

Directories == {loadHospitals(f) : f \in CsvFiles}

\* call identifiers as the telephony provider issues them
CallSids == {"CA01", "CA02"}

\* what the completion call may do when a credential is configured
LlmOutcomes ==
    { NetworkError, InvalidJson,
      Parsed(Str("FIND_NEARBY"), Str("bangalore"), Str(""), Num(2)),
      Parsed(Str("FIND_NEARBY"), Str("Bangalore"), Str(""), Num(0)),
      Parsed(Str("FIND_NEARBY"), Str("Bangalore"), Str(""), Num(-1)),
      Parsed(Str("FIND_NEARBY"), Str("Bangalore"), Str(""), Str("two")),
      Parsed(Str("FIND_NEARBY"), Num(560001), Str(""), Num(3)),
      Parsed(Str("CONFIRM_IN_NETWORK"), Str("Chennai"), Str("Apollo Hospital"), Num(3)),
      Parsed(Str("CONFIRM_IN_NETWORK"), Str("Chennai"), Num(7), Num(3)),
      Parsed(Str("OUT_OF_SCOPE"), Str(""), Str(""), Num(3)),
      Parsed(Str("GREETING"), Str(""), Str(""), Num(3)),
      Parsed(Undef, Str("Chennai"), Undef, Undef) }

OutcomesFor(key) == IF key THEN LlmOutcomes ELSE {NoCall}

\* bounds of the model
MaxTurns    == 2      \* requests received per call identifier
MaxInFlight == 2      \* requests suspended at the completion call
MaxLimit    == 4      \* |limit| of a direct search

(***************************************************************************)
(* State.                                                                  *)
(***************************************************************************)
VARIABLES
    hospitals,        \* the Directory, set once by loadHospitals
    apiKey,           \* whether process.env.OPENAI_API_KEY is set
    twilioSessions,   \* global.twilioSessions: call identifier -> greeted
    inflight,         \* /twilio/voice/response requests suspended at the await
    handled,          \* per call identifier, isFirstMessage of each request
                      \* in the order the requests were received
    last,             \* the turn completed last: its inputs and its response
    prev,             \* the Dialogue Responder's run before the last one
    probe             \* the last direct call of a search helper

vars == << hospitals, apiKey, twilioSessions, inflight, handled, last, prev, probe >>

NoTurn ==
    [ch |-> "none", sid |-> "", text |-> "", isFirstMessage |-> FALSE,
     llm |-> NoCall, invoked |-> FALSE, info |-> NoInfo, status |-> "none",
     result |-> Result("", FALSE), caught |-> FALSE, doc |-> <<>>, http |-> 0]

NoProbe == [op |-> "none", name |-> Str(""), city |-> Str(""), limit |-> Undef,
            out |-> Return(<< >>), made |-> FALSE]

Init ==
    /\ hospitals \in Directories
    /\ apiKey \in BOOLEAN
    /\ twilioSessions = [sid \in CallSids |-> FALSE]
    /\ inflight = {}
    /\ handled = [sid \in CallSids |-> <<>>]
    /\ last = NoTurn
    /\ prev = NoTurn
    /\ probe = NoProbe

(***************************************************************************)
(* POST /api/query, server.js 355-363: handled in one step.                *)
(***************************************************************************)
\* lines 361-362: res.json(result)
webTurn(text, isFirstMessage, llm, h) ==
    [ch |-> "web", sid |-> "", text |-> text, isFirstMessage |-> isFirstMessage,
     llm |-> llm, invoked |-> TRUE, info |-> h.info, status |-> h.status,
     result |-> h.result, caught |-> h.caught, doc |-> << >>, http |-> 200]

ApiQuery(text, introduced, llm) ==
    /\ last' =
         IF trim(text) = ""
         THEN [NoTurn EXCEPT !.ch = "web", !.text = text, !.http = 400]
         ELSE webTurn(text, ~introduced, llm,
                      handleQuery(hospitals, apiKey, text, ~introduced, llm))
    /\ UNCHANGED << hospitals, apiKey, twilioSessions, inflight, handled, prev, probe >>

(***************************************************************************)
(* POST /twilio/voice/response, server.js 396-449.                         *)
(***************************************************************************)
\* line 405
isFirstFor(sessions, callSid) == ~sessions[callSid]
\* markSession leaving the flag to be set later
markSessionLater(sessions, callSid) == sessions

\* line 406
markSession(sessions, callSid) == [sessions EXCEPT ![callSid] = TRUE]

\* lines 408-420: no speech, handleQuery is not called
noInputTurn(callSid, userSpeech, isFirstMessage) ==
    [NoTurn EXCEPT !.ch = "twilio", !.sid = callSid, !.text = userSpeech,
                   !.isFirstMessage = isFirstMessage, !.doc = noInputDocument,
                   !.http = 200]

\* lines 422-448: the query is processed and the document sent
spokenDocument(callSid, userSpeech, isFirstMessage, llm, h) ==
    [ch |-> "twilio", sid |-> callSid, text |-> userSpeech,
     isFirstMessage |-> isFirstMessage, llm |-> llm, invoked |-> TRUE,
     info |-> h.info, status |-> h.status, result |-> h.result,
     caught |-> h.caught,
     doc |-> IF h.status = "resolved" THEN replyDocument(h.result) ELSE << >>,
     http |-> IF h.status = "resolved" THEN 200 ELSE 0]

spokenTurn(callSid, userSpeech, isFirstMessage, llm) ==
    spokenDocument(callSid, userSpeech, isFirstMessage, llm,
                   handleQuery(hospitals, apiKey, userSpeech, isFirstMessage, llm))

\* lines 398-406, the part of the handler before anything can suspend it
enterCall(callSid) ==
    /\ Len(handled[callSid]) < MaxTurns
    /\ twilioSessions' = markSession(twilioSessions, callSid)
    /\ handled' = [handled EXCEPT
                     ![callSid] = Append(@, isFirstFor(twilioSessions, callSid))]

\* the whole handler as one step: a turn whose completion call, if any, has
\* returned.  What the handler computes after the await reads nothing another
\* request can change.
VoiceResponse(callSid, userSpeech, llm) ==
    /\ enterCall(callSid)
    /\ last' = IF trim(userSpeech) = ""
               THEN noInputTurn(callSid, userSpeech,
                                isFirstFor(twilioSessions, callSid))
               ELSE spokenTurn(callSid, userSpeech,
                               isFirstFor(twilioSessions, callSid), llm)
    /\ UNCHANGED << hospitals, apiKey, inflight, prev, probe >>

\* the handler up to its await: with speech and a credential it suspends at
\* the completion call; otherwise it runs to its end
VoiceReceive(callSid, userSpeech) ==
    /\ enterCall(callSid)
    /\ IF trim(userSpeech) = ""
       THEN /\ last' = noInputTurn(callSid, userSpeech,
                                   isFirstFor(twilioSessions, callSid))
            /\ UNCHANGED inflight
       ELSE IF ~apiKey
       THEN /\ last' = spokenTurn(callSid, userSpeech,
                                  isFirstFor(twilioSessions, callSid), NoCall)
            /\ UNCHANGED inflight
       ELSE /\ Cardinality(inflight) < MaxInFlight
            /\ inflight' = inflight \cup
                 { [sid |-> callSid, speech |-> userSpeech,
                    isFirstMessage |-> isFirstFor(twilioSessions, callSid),
                    ord |-> Len(handled[callSid]) + 1] }
            /\ UNCHANGED last
    /\ UNCHANGED << hospitals, apiKey, prev, probe >>

\* the completion call of a suspended request returns and the handler ends
VoiceSettle(r, llm) ==
    /\ r \in inflight
    /\ inflight' = inflight \ {r}
    /\ last' = spokenTurn(r.sid, r.speech, r.isFirstMessage, llm)
    /\ UNCHANGED << hospitals, apiKey, twilioSessions, handled, prev, probe >>

(***************************************************************************)
(* The Dialogue Responder run on a QueryInfo, and the search helpers       *)
(* called directly.                                                        *)
(***************************************************************************)
\* every QueryInfo the interpreter can return
QueryInfos ==
    {extractQueryInfo(u, TRUE, l) : u \in {v \in Utterances : trim(v) # ""},
                                    l \in LlmOutcomes}

responderRun(info, isFirstMessage, r) ==
    [NoTurn EXCEPT !.ch = "responder", !.invoked = TRUE,
                   !.isFirstMessage = isFirstMessage, !.info = info,
                   !.status = r.status, !.result = r.result, !.caught = r.caught]

Respond(info, isFirstMessage) ==
    /\ prev' = last
    /\ last' = responderRun(info, isFirstMessage,
                            respond(hospitals, info, isFirstMessage))
    /\ UNCHANGED << hospitals, apiKey, twilioSessions, inflight, handled, probe >>

\* the letter cases a text may be given in
Cases(text) == {text, toUpperCase(text), toLowerCase(text)}

NameInputs == UNION {Cases(d[n].name) : d \in Directories, n \in 1..2}
              \cup UNION {{d[n].name : n \in 1..Len(d)} : d \in Directories}
              \cup {"Hospital"}
CityInputs == UNION {Cases(d[n].city) : d \in Directories, n \in 1..2}
              \cup UNION {{d[n].city : n \in 1..Len(d)} : d \in Directories}
              \cup {"bang", "Mysore"}
LimitInputs == {Num(n) : n \in (0 - MaxLimit)..MaxLimit} \cup {Undef}

\* a call of a search helper about to be made
Pending(op, name, city, limit) ==
    [op |-> op, name |-> Str(name), city |-> Str(city), limit |-> limit,
     out |-> Return(<< >>), made |-> FALSE]

SearchCity ==
    /\ probe.op = "search" /\ ~probe.made
    /\ probe' = [probe EXCEPT
                   !.out = searchHospitalsAroundCity(hospitals, probe.city, probe.limit),
                   !.made = TRUE]
    /\ UNCHANGED << hospitals, apiKey, twilioSessions, inflight, handled, last, prev >>

FindByName ==
    /\ probe.op = "find" /\ ~probe.made
    /\ probe' = [probe EXCEPT
                   !.out = findHospitalInCityByName(hospitals, probe.name, probe.city),
                   !.made = TRUE]
    /\ UNCHANGED << hospitals, apiKey, twilioSessions, inflight, handled, last, prev >>

(***************************************************************************)
(* Specifications.                                                         *)
(***************************************************************************)
\* the client has read the response of the turn
ResponseRead ==
    /\ last # NoTurn
    /\ last' = NoTurn
    /\ UNCHANGED << hospitals, apiKey, twilioSessions, inflight, handled, prev, probe >>

\* the server answering one turn at a time: a request is sent once the
\* response of the one before it was read
Next ==
    \/ /\ last = NoTurn
       /\ \E text \in Utterances, introduced \in BOOLEAN, llm \in OutcomesFor(apiKey) :
             ApiQuery(text, introduced, llm)
    \/ /\ last = NoTurn
       /\ \E callSid \in CallSids, userSpeech \in Utterances,
             llm \in OutcomesFor(apiKey) :
             VoiceResponse(callSid, userSpeech, llm)
    \/ ResponseRead

Spec == Init /\ [][Next]_vars

\* handleQuery called on its own
directTurn(text, isFirstMessage, llm, h) ==
    [ch |-> "direct", sid |-> "", text |-> text, isFirstMessage |-> isFirstMessage,
     llm |-> llm, invoked |-> TRUE, info |-> h.info, status |-> h.status,
     result |-> h.result, caught |-> h.caught, doc |-> << >>, http |-> 0]

HandleQuery(text, isFirstMessage, llm) ==
    /\ last' = directTurn(text, isFirstMessage, llm,
                          handleQuery(hospitals, apiKey, text, isFirstMessage, llm))
    /\ UNCHANGED << hospitals, apiKey, twilioSessions, inflight, handled, prev, probe >>

NextHandle ==
    \/ /\ last = NoTurn
       /\ \E text \in Utterances, isFirstMessage \in BOOLEAN,
             llm \in OutcomesFor(apiKey) :
             HandleQuery(text, isFirstMessage, llm)
    \/ ResponseRead

SpecHandle == Init /\ [][NextHandle]_vars

\* telephony requests overlapping at the completion call
CallSpeech   == {"", "hello there", "book an appointment for tomorrow"}
CallOutcomes == {NetworkError, Parsed(Str("GREETING"), Str(""), Str(""), Num(3))}

NextCalls ==
    \/ \E callSid \in CallSids, userSpeech \in CallSpeech :
          VoiceReceive(callSid, userSpeech)
    \/ \E r \in inflight, llm \in CallOutcomes : VoiceSettle(r, llm)

SpecCalls == Init /\ [][NextCalls]_vars

\* the Dialogue Responder run on QueryInfos
NextResponder ==
    \E info \in QueryInfos, isFirstMessage \in BOOLEAN : Respond(info, isFirstMessage)

SpecResponder == Init /\ [][NextResponder]_vars

\* the search helpers called directly: the arguments are drawn at the start
InitMatcher ==
    /\ hospitals \in Directories
    /\ apiKey = FALSE
    /\ twilioSessions = [sid \in CallSids |-> FALSE]
    /\ inflight = {}
    /\ handled = [sid \in CallSids |-> << >>]
    /\ last = NoTurn
    /\ prev = NoTurn
    /\ probe \in {Pending("search", "", city, limit) :
                     city \in CityInputs, limit \in LimitInputs}
                \cup {Pending("find", name, city, Undef) :
                        name \in NameInputs, city \in CityInputs}

NextMatcher == SearchCity \/ FindByName

SpecMatcher == InitMatcher /\ [][NextMatcher]_vars

(***************************************************************************)
(* Properties.                                                             *)
(***************************************************************************)
Min(a, b) == IF a < b THEN a ELSE b
Range(seq) == {seq[n] : n \in 1..Len(seq)}
StartsWith(s, p) == Len(s) >= Len(p) /\ SubSeq(s, 1, Len(p)) = p
SameIgnoringCase(a, b) == toLowerCase(a) = toLowerCase(b)
ContainsIgnoringCase(s, k) == includes(toLowerCase(s), toLowerCase(k))

\* the Directory records whose city contains c, in Directory order
CityMatches(dir, c) ==
    LET In(h) == ContainsIgnoringCase(h.city, c) IN SelectSeq(dir, In)

\* handleQuery ran in the last turn
Asked == last.invoked /\ last.ch \in {"web", "twilio", "direct"}

(* C1 ---------------------------------------------------------------------*)
ConfirmPairs == { <<"Apollo Hospital", "Chennai">>, <<"City Clinic", "Pune">> }
ConfirmIf(name, city) ==
    "confirm if " \o name \o " in " \o city \o " is in my network"
Holds(dir, name, city) ==
    \E n \in 1..Len(dir) : dir[n].name = name /\ dir[n].city = city

\* C1: with no credential, "confirm if <name> in <city> is in my network" is
\* answered "Yes, <name> in <city> is in your Loop network." when the
\* Directory holds a record with that name and city, and with the "I could
\* not find ..." reply when it holds none; endConversation is false.
C1_ConfirmIfAnswered ==
    \A pair \in ConfirmPairs :
        (Asked /\ ~apiKey /\ last.text = ConfirmIf(pair[1], pair[2]))
        => /\ ~last.result.endConversation
           /\ IF Holds(hospitals, pair[1], pair[2])
              THEN last.result.reply =
                     "Yes, " \o pair[1] \o " in " \o pair[2] \o " is in your Loop network."
              ELSE StartsWith(last.result.reply, "I could not find ")

(* C2 ---------------------------------------------------------------------*)
Found == probe.made /\ probe.op = "find"
AsksFor(h) ==
    SameIgnoringCase(probe.name.s, h.name) /\ SameIgnoringCase(probe.city.s, h.city)

\* C2 as claimed: for every record r of the Directory, empty name or city
\* included, findHospitalInCityByName(r.name, r.city) in any letter case
\* returns a list that contains r.
C2_FindsEveryRecord ==
    Found => \A n \in 1..Len(hospitals) :
                AsksFor(hospitals[n])
                => ~probe.out.thrown /\ hospitals[n] \in Range(probe.out.v)

\* C2 amended: the same for every record whose name and city are both
\* non-empty; asked with an empty name or city the function returns the
\* empty list.
C2_FindsNamedRecord ==
    Found => /\ \A n \in 1..Len(hospitals) :
                  (AsksFor(hospitals[n]) /\ hospitals[n].name # ""
                                         /\ hospitals[n].city # "")
                  => ~probe.out.thrown /\ hospitals[n] \in Range(probe.out.v)
             /\ (probe.name.s = "" \/ probe.city.s = "")
                  => probe.out = Return(<< >>)

C2_Witness ==
    /\ Found
    /\ \E n \in 1..Len(hospitals) :
          /\ AsksFor(hospitals[n])
          /\ probe.name.s # hospitals[n].name
          /\ probe.city.s # hospitals[n].city
          /\ hospitals[n] \in Range(probe.out.v)

(* C3 ---------------------------------------------------------------------*)
Searched == probe.made /\ probe.op = "search" /\ probe.limit.t = "number"
\* what C3 says of a search with limit n
SearchWithin(n) ==
    /\ ~probe.out.thrown
    /\ Len(probe.out.v) <= n
    /\ \A k \in 1..Len(probe.out.v) :
          ContainsIgnoringCase(probe.out.v[k].city, probe.city.s)
    /\ probe.out.v = SubSeq(CityMatches(hospitals, probe.city.s), 1, Len(probe.out.v))
    /\ probe.city.s = "" => probe.out.v = << >>

\* C3 as claimed: for every limit n, 0 and negative included,
\* searchHospitalsAroundCity(c, n) returns at most n records, each of a city
\* containing c, the first matches in Directory order, none for an empty c.
C3_AtMostLimit == Searched => SearchWithin(probe.limit.n)

\* C3 amended: the same for every limit n >= 0, and then the result is the
\* first min(n, matches) matches.
C3_AtMostLimitFromZero ==
    (Searched /\ probe.limit.n >= 0)
    => /\ SearchWithin(probe.limit.n)
       /\ probe.city.s # ""
            => Len(probe.out.v)
                 = Min(probe.limit.n, Len(CityMatches(hospitals, probe.city.s)))

C3_Witness ==
    /\ Searched
    /\ probe.limit.n = 2
    /\ Len(probe.out.v) = 2
    /\ Len(CityMatches(hospitals, probe.city.s)) > 2

(* C4 ---------------------------------------------------------------------*)
IntentEnum == {"FIND_NEARBY", "CONFIRM_IN_NETWORK", "OUT_OF_SCOPE"}
SchemaMismatch(parsed) ==
    \/ ~IsStr(parsed.intent)
    \/ (IsStr(parsed.intent) /\ parsed.intent.s \notin IntentEnum)
    \/ ~IsStr(parsed.city)
    \/ ~IsStr(parsed.hospitalName)
LlmFailed(llm) ==
    \/ llm.kind \in {"network_error", "invalid_json"}
    \/ llm.kind = "object" /\ SchemaMismatch(llm.parsed)

\* C4: when the language-model call fails (network error, invalid JSON, or a
\* parsed response that does not match the schema), extractQueryInfo returns
\* the QueryInfo naiveParse returns for the utterance, and handleQuery
\* resolves without the failure reaching its caller.
C4_FailureFallsBack ==
    (Asked /\ apiKey /\ LlmFailed(last.llm))
    => last.info = parse(last.text) /\ last.status = "resolved"

(* C5 ---------------------------------------------------------------------*)
\* a search helper is reached with a value that has no toUpperCase
HelperFails(info) ==
    /\ ~info.outOfScope /\ ~StrictEq(info.intent, "OUT_OF_SCOPE")
    /\ \/ /\ StrictEq(info.intent, "FIND_NEARBY")
          /\ Truthy(info.city) /\ ~IsStr(info.city)
       \/ /\ StrictEq(info.intent, "CONFIRM_IN_NETWORK")
          /\ Truthy(info.hospitalName) /\ Truthy(info.city)
          /\ (~IsStr(info.hospitalName) \/ ~IsStr(info.city))

\* C5: handleQuery never rejects: for every input, empty and blank included,
\* and every QueryInfo, mistyped fields included, it resolves to a complete
\* {reply, endConversation}; empty input gets the greeting, and a failure
\* raised while answering gets the "something went wrong" reply with
\* endConversation false.
C5_AlwaysResolves ==
    Asked => /\ last.status = "resolved"
             /\ last.result.reply # ""
             /\ last.result.endConversation \in BOOLEAN
             /\ trim(last.text) = "" => last.result = Result(GreetingReply, FALSE)
             /\ (last.caught \/ (trim(last.text) # "" /\ HelperFails(last.info)))
                  => last.result = Result(SorryReply, FALSE)

C5_Witness ==
    /\ Asked
    /\ HelperFails(last.info)
    /\ last.caught
    /\ last.result = Result(SorryReply, FALSE)

(* C6 ---------------------------------------------------------------------*)
OffTopic(text) ==
    /\ \E n \in 1..Len(outOfScopeKeywords) :
          ContainsIgnoringCase(text, outOfScopeKeywords[n])
    /\ \A n \in 1..Len(hospitalKeywords) :
          ~ContainsIgnoringCase(text, hospitalKeywords[n])

\* C6: with no credential an utterance with an off-topic keyword and no
\* hospital-domain keyword is classified OUT_OF_SCOPE and answered with the
\* apology and endConversation true, whatever city it names; and
\* endConversation is true only for a QueryInfo that is out of scope.
C6_OffTopicEndsCall ==
    /\ (Asked /\ ~apiKey /\ OffTopic(last.text))
         => /\ StrictEq(last.info.intent, "OUT_OF_SCOPE")
            /\ last.info.outOfScope
            /\ last.result = Result(ApologyReply, TRUE)
    /\ (Asked /\ last.result.endConversation)
         => last.info.outOfScope \/ StrictEq(last.info.intent, "OUT_OF_SCOPE")

C6_Witness ==
    /\ Asked /\ ~apiKey
    /\ last.text = "BOOK a cab to Mumbai"
    /\ last.result = Result(ApologyReply, TRUE)

(* C7 ---------------------------------------------------------------------*)
RECURSIVE NumberedLines(_, _)
\* "1. <name>, <address>, <city> 2. ..." of the first k records of m
NumberedLines(m, k) ==
    IF k = 0 THEN ""
    ELSE NumberedLines(m, k - 1) \o (IF k > 1 THEN " " ELSE "")
         \o ToString(k) \o ". " \o m[k].name \o ", " \o m[k].address \o ", " \o m[k].city

NearbyReplyFor(city, m, k) ==
    "Here are " \o ToString(k) \o " hospitals around " \o city \o ": "
    \o NumberedLines(m, k)

Twice == prev.ch = "responder" /\ last.ch = "responder" /\ prev.info = last.info
\* the QueryInfo ends in the fallback branch
Unclassified(info) ==
    /\ ~info.outOfScope
    /\ ~(IsStr(info.intent) /\ info.intent.s \in IntentEnum)
    /\ ~(StrictEq(info.intent, "IN_SCOPE") /\ Truthy(info.city))

\* C8 as claimed: two runs of the Dialogue Responder on the same QueryInfo
\* and Directory give the same output, also when the first-turn flag differs.
C8_SameInfoSameOutput == Twice => prev.result = last.result

\* C8 amended: they give the same output when the first-turn flag is the
\* same, and for every QueryInfo but an unclassified one when it differs.
C8_SameOutputButFallback ==
    (Twice /\ (prev.isFirstMessage = last.isFirstMessage \/ ~Unclassified(last.info)))
    => prev.result = last.result

C8_Witness ==
    /\ Twice
    /\ prev.isFirstMessage # last.isFirstMessage
    /\ ~Unclassified(last.info)
    /\ prev.result = last.result
    /\ last.result.reply = AskCityReply

(* C9 ---------------------------------------------------------------------*)
\* C9: under every interleaving, of the requests received for a call
\* identifier the first, and only the first, is handled with isFirstMessage
\* true; the flag of a call identifier is set exactly when a request for it
\* was received, so it is never cleared and never set by another's request.
C9_FirstRequestOnly ==
    /\ \A sid \in CallSids :
          /\ twilioSessions[sid] <=> Len(handled[sid]) > 0
          /\ \A k \in 1..Len(handled[sid]) : handled[sid][k] <=> k = 1
    /\ \A r \in inflight : r.isFirstMessage <=> r.ord = 1

C9_Witness ==
    \E r1, r2 \in inflight :
        /\ r1.sid = r2.sid
        /\ r1.ord = 1 /\ r1.isFirstMessage
        /\ r2.ord = 2 /\ ~r2.isFirstMessage
        /\ ~twilioSessions[CHOOSE sid \in CallSids : sid # r1.sid]

(* C10 --------------------------------------------------------------------*)
Gathers(doc) == {n \in 1..Len(doc) : doc[n].verb = "Gather"}

\* C10: the document of a /twilio/voice/response turn hangs up without a
\* speech gather exactly when handleQuery returned endConversation true; in
\* every other case, no speech included, it holds a speech gather whose
\* action is /twilio/voice/response.
C10_HangUpOrReprompt ==
    last.ch = "twilio"
    => /\ Len(last.doc) > 0
       /\ last.doc[Len(last.doc)].verb = "Hangup"
       /\ Gathers(last.doc) = {} <=> (last.invoked /\ last.result.endConversation)
       /\ \A n \in Gathers(last.doc) :
             last.doc[n].action = "/twilio/voice/response"
             /\ last.doc[n].input = "speech"

C10_Witness ==
    /\ last.ch = "twilio"
    /\ last.invoked /\ last.result.endConversation
    /\ last.doc = << Say(ApologyReply), Hangup >>

=============================================================================
